---- MODULE Spec2Model ----
(***************************************************************************)
(* The tenant matching engine of matching_engine.py: per-attribute scoring *)
(* (similarity, complementarity), weighted aggregation into a              *)
(* compatibility percentage, ranking of every tenant's candidates, and the *)
(* top-driver explanation of every emitted match row.                      *)
(*                                                                         *)
(* Number representation.  Python floats are modelled as exact rationals   *)
(* in fixed point:                                                         *)
(*   - a weight is an integer number of tenths (1.3 is 13);                *)
(*   - a score in [0,1] is an integer number of 1/One, where One is        *)
(*     SCALE_MAX - SCALE_MIN (4 on the 1..5 scale), so 0.75 is 3;          *)
(*   - a weighted sum is an integer number of 1/(10*One);                  *)
(*   - compat is the pair [num, den] with compat = num/den percent;        *)
(*   - a value printed with two decimals is an integer number of           *)
(*     hundredths.                                                         *)
(* Attribute values are integers (the generated tables hold integers).     *)
(* Double arithmetic agrees with the exact order of two values whenever    *)
(* the exact values differ; where two exact values tie, the doubles may    *)
(* differ in the last bit.  For the driver key w*score that last bit is    *)
(* modelled (FloatBias); for the weighted sum it is not.                   *)
(***************************************************************************)
EXTENDS Integers, Sequences, FiniteSets, TLC

(***************************************************************************)
(* Bounds of the model.                                                    *)
(***************************************************************************)
MaxEntities == 3
MaxTopN == 3

(***************************************************************************)
(* Generic helpers.                                                        *)
(***************************************************************************)
abs(v) == IF v < 0 THEN -v ELSE v

max(p, q) == IF p >= q THEN p ELSE q

min(p, q) == IF p <= q THEN p ELSE q

Range(s) == { s[k] : k \in DOMAIN s }

\* a list built by a comprehension: the sequence, with its elements evaluated
List(s) == << >> \o s

\* dict.get(key, default)
Get(d, key, default) == IF key \in DOMAIN d THEN d[key] ELSE default

\* sum(s)
SumSeq(s) ==
    LET partial[k \in 0..Len(s)] == IF k = 0 THEN 0 ELSE partial[k - 1] + s[k]
    IN  partial[Len(s)]

\* s[:k] of a Python list, k >= 0
Prefix(s, k) == SubSeq(s, 1, min(k, Len(s)))

\* str.join: the strings of parts, with sep between two neighbours
RECURSIVE join(_, _)
join(sep, parts) ==
    IF parts = << >> THEN ""
    ELSE IF Len(parts) = 1 THEN parts[1]
    ELSE parts[1] \o sep \o join(sep, Tail(parts))

\* the string spelled by a sequence of characters
RECURSIVE Str(_)
Str(cs) == IF cs = << >> THEN "" ELSE Head(cs) \o Str(Tail(cs))

\* Python's list.sort(key=..., reverse=True): a stable descending sort.
\* keys[k] is the key of s[k].  An item comes after the items of a greater
\* key and after the earlier items of the same key.
SortDesc(s, keys) ==
    LET n == Len(s)
        place == List([k \in 1..n |->
                     1 + Cardinality({ m \in 1..n :
                            keys[m] > keys[k] \/ (keys[m] = keys[k] /\ m < k) })])
    IN  List([p \in 1..n |-> s[CHOOSE k \in 1..n : place[k] = p]])

(***************************************************************************)
(* Number formatting.                                                      *)
(***************************************************************************)
\* round(num/den * 100) to an integer, ties to even: the number of
\* hundredths that round(v, 2) and the format :.2f keep of v = num/den >= 0
Round2(num, den) ==
    LET n == num * 100
        q == n \div den
        r == n % den
    IN  IF 2 * r < den THEN q
        ELSE IF 2 * r > den THEN q + 1
        ELSE IF q % 2 = 0 THEN q ELSE q + 1

\* f"{v:.2f}" of a value given in hundredths
Fmt2f(h) ==
    ToString(h \div 100) \o "." \o ToString((h % 100) \div 10) \o ToString(h % 10)

\* f"{n:03d}"
Fmt03d(n) ==
    IF n < 10 THEN "00" \o ToString(n)
    ELSE IF n < 100 THEN "0" \o ToString(n)
    ELSE ToString(n)

(***************************************************************************)
(* Attribute names, as the characters they are spelled with.               *)
(***************************************************************************)
Chars(f) ==
    CASE f = "cleanliness_level" ->
           << "c", "l", "e", "a", "n", "l", "i", "n", "e", "s", "s", "_", "l", "e", "v", "e", "l" >>
      [] f = "noise_tolerance" ->
           << "n", "o", "i", "s", "e", "_", "t", "o", "l", "e", "r", "a", "n", "c", "e" >>
      [] f = "sleep_schedule" ->
           << "s", "l", "e", "e", "p", "_", "s", "c", "h", "e", "d", "u", "l", "e" >>
      [] f = "routine_structure" ->
           << "r", "o", "u", "t", "i", "n", "e", "_", "s", "t", "r", "u", "c", "t", "u", "r", "e" >>
      [] f = "WFH_frequency" ->
           << "W", "F", "H", "_", "f", "r", "e", "q", "u", "e", "n", "c", "y" >>
      [] f = "sociability_level" ->
           << "s", "o", "c", "i", "a", "b", "i", "l", "i", "t", "y", "_", "l", "e", "v", "e", "l" >>
      [] f = "guest_tolerance" ->
           << "g", "u", "e", "s", "t", "_", "t", "o", "l", "e", "r", "a", "n", "c", "e" >>
      [] f = "privacy_need" ->
           << "p", "r", "i", "v", "a", "c", "y", "_", "n", "e", "e", "d" >>
      [] f = "conflict_style" ->
           << "c", "o", "n", "f", "l", "i", "c", "t", "_", "s", "t", "y", "l", "e" >>
      [] f = "shared_spaces_usage" ->
           << "s", "h", "a", "r", "e", "d", "_", "s", "p", "a", "c", "e", "s", "_", "u", "s", "a", "g", "e" >>
      [] f = "x" -> << "x" >>

LowerCase ==
    << "a", "b", "c", "d", "e", "f", "g", "h", "i", "j", "k", "l", "m",
       "n", "o", "p", "q", "r", "s", "t", "u", "v", "w", "x", "y", "z" >>

UpperCase ==
    << "A", "B", "C", "D", "E", "F", "G", "H", "I", "J", "K", "L", "M",
       "N", "O", "P", "Q", "R", "S", "T", "U", "V", "W", "X", "Y", "Z" >>

LowerCaseLetters == Range(LowerCase)

UpperCaseLetters == Range(UpperCase)

IndexIn(alphabet, c) == CHOOSE k \in DOMAIN alphabet : alphabet[k] = c

upper(c) == IF c \in LowerCaseLetters THEN UpperCase[IndexIn(LowerCase, c)] ELSE c

lower(c) == IF c \in UpperCaseLetters THEN LowerCase[IndexIn(UpperCase, c)] ELSE c

\* str.replace(old, new) for one-character old and new
replace(cs, old, new) ==
    List([k \in DOMAIN cs |-> IF cs[k] = old THEN new ELSE cs[k]])

\* str.capitalize(): first character upper case, the rest lower case
capitalize(cs) ==
    List([k \in DOMAIN cs |-> IF k = 1 THEN upper(cs[k]) ELSE lower(cs[k])])

(***************************************************************************)
(* Configuration: the module globals of matching_engine.py.  They are read *)
(* when compute_top_matches runs, so a run is started under one of a small *)
(* set of configurations: the one the file sets, and variants that set     *)
(* other values to the same globals.                                       *)
(***************************************************************************)
SourceFeatures ==
    << "cleanliness_level", "noise_tolerance", "sleep_schedule",
       "routine_structure", "WFH_frequency", "sociability_level",
       "guest_tolerance", "privacy_need", "conflict_style",
       "shared_spaces_usage" >>

\* in tenths
SourceWeights ==
    [f \in Range(SourceFeatures) |->
        CASE f = "cleanliness_level" -> 13
          [] f = "noise_tolerance" -> 13
          [] f = "sleep_schedule" -> 12
          [] f = "routine_structure" -> 10
          [] f = "WFH_frequency" -> 8
          [] f = "sociability_level" -> 10
          [] f = "guest_tolerance" -> 10
          [] f = "privacy_need" -> 11
          [] f = "conflict_style" -> 9
          [] f = "shared_spaces_usage" -> 9]

SourceScoringMode ==
    [f \in Range(SourceFeatures) |->
        IF f \in {"sociability_level", "shared_spaces_usage"}
        THEN "complementarity" ELSE "similarity"]

SourceScaleMin == 1

SourceScaleMax == 5

\* the configuration the file sets
SourceConfig ==
    [FEATURES |-> SourceFeatures, WEIGHTS |-> SourceWeights,
     SCORING_MODE |-> SourceScoringMode,
     SCALE_MIN |-> SourceScaleMin, SCALE_MAX |-> SourceScaleMax]

\* The configurations a run is started under.  "x" is an attribute that
\* WEIGHTS and SCORING_MODE do not name unless said: it gets the defaults of
\* weights.get(f, 1.0) and SCORING_MODE.get(feature, "similarity").
Configs ==
    { SourceConfig,
      \* one similarity attribute of weight 1.0
      [SourceConfig EXCEPT !.FEATURES = << "x" >>],
      \* one complementarity attribute of weight 1.0
      [SourceConfig EXCEPT !.FEATURES = << "x" >>,
                           !.SCORING_MODE = [f \in {"x"} |-> "complementarity"]],
      \* two attributes, one of each mode
      [SourceConfig EXCEPT !.FEATURES = << "cleanliness_level", "sociability_level" >>],
      \* four attributes
      [SourceConfig EXCEPT !.FEATURES = << "sleep_schedule", "WFH_frequency",
                                           "conflict_style", "shared_spaces_usage" >>],
      \* a scale of one point
      [SourceConfig EXCEPT !.FEATURES = << "x", "sociability_level" >>,
                           !.SCALE_MIN = 3, !.SCALE_MAX = 3],
      \* weights that sum to zero
      [SourceConfig EXCEPT !.FEATURES = << "x" >>,
                           !.WEIGHTS = [f \in {"x"} |-> 0]] }

(***************************************************************************)
(* Input tables.  A table is a sequence of rows drawn without repetition   *)
(* from a population of tenants, in any order: sorted or not, complete or  *)
(* filtered.  A cell is [numeric, value]: a number, or text that float()   *)
(* rejects.                                                                *)
(***************************************************************************)
Columns == Range(SourceFeatures) \cup {"x"}

Num(v) == [numeric |-> TRUE, value |-> v]

NotANumber == [numeric |-> FALSE, value |-> 0]

make_tenant_label(user_id) == "Tenant_" \o Fmt03d(user_id)

\* a row of the table: the ten attributes in the order of SourceFeatures, then x
Row(user_id, cells) ==
    [user_id |-> user_id,
     tenant_label |-> make_tenant_label(user_id),
     attrs |-> [c \in Columns |->
                   IF c = "x" THEN cells[11]
                   ELSE cells[CHOOSE k \in DOMAIN SourceFeatures : SourceFeatures[k] = c]]]

Ints(vs) == [k \in DOMAIN vs |-> Num(vs[k])]

Population ==
    << Row(1, Ints(<< 1, 1, 1, 1, 1, 1, 1, 1, 1, 2, 1 >>)),
       Row(2, Ints(<< 3, 3, 3, 3, 3, 1, 3, 3, 3, 2, 3 >>)),
       Row(3, Ints(<< 5, 5, 5, 5, 5, 4, 5, 5, 5, 4, 5 >>)),
       Row(4, Ints(<< 1, 2, 3, 4, 5, 4, 2, 4, 2, 3, 3 >>)),
       Row(5, Ints(<< 2, 4, 1, 4, 3, 5, 2, 5, 4, 5, 2 >>)),
       \* values outside the scale, in a second row with the user_id 2
       Row(2, Ints(<< 0, 7, 3, -2, 9, 5, 1, 6, 3, 9, 7 >>)),
       \* text where a number is expected
       Row(7, [Ints(<< 3, 3, 3, 3, 3, 3, 3, 3, 3, 3, 3 >>)
                  EXCEPT ![3] = NotANumber, ![11] = NotANumber]) >>

\* the sequences of n different elements of S
RECURSIVE Arrangements(_, _)
Arrangements(S, n) ==
    IF n = 0 THEN { << >> }
    ELSE UNION { { Append(t, e) : e \in S \ Range(t) } : t \in Arrangements(S, n - 1) }

Tables ==
    UNION { { [k \in DOMAIN t |-> Population[t[k]]] : t \in Arrangements(DOMAIN Population, n) }
            : n \in 0..MaxEntities }

(***************************************************************************)
(* State of a run of compute_top_matches(profiles, top_n).                 *)
(***************************************************************************)
VARIABLES
    config,      \* the module globals the run reads
    profiles,    \* the input table
    top_n,       \* the number of matches asked for per tenant
    i,           \* the number of rows of the table the outer loop has processed
    candidates,  \* the sorted candidates of the last row processed
    out_rows,    \* the match rows emitted so far
    pc,          \* "running", "done" (returned) or "raised" (left by an exception)
    error        \* the exception that ended the run, or "none"

vars == << config, profiles, top_n, i, candidates, out_rows, pc, error >>

FEATURES == config.FEATURES

WEIGHTS == config.WEIGHTS

SCORING_MODE == config.SCORING_MODE

SCALE_MIN == config.SCALE_MIN

SCALE_MAX == config.SCALE_MAX

(***************************************************************************)
(* Scoring.  A score is a number of 1/One.                                 *)
(***************************************************************************)
max_dist == SCALE_MAX - SCALE_MIN

\* the score 1.0
One == IF max_dist <= 0 THEN 1 ELSE max_dist

\* variant: the score is not clamped
clamp01_off(v) == v

clamp01(v) == max(0, min(One, v))

\* variant: the distance keeps its sign
similarity_score_signed(a, b) ==
    IF max_dist <= 0 THEN One
    ELSE LET dist == a - b
         IN  clamp01(One - dist)

\* variant: the distance is not divided by max_dist
similarity_score_unscaled(a, b) ==
    IF max_dist <= 0 THEN One
    ELSE LET dist == abs(a - b)
         IN  clamp01(One - One * dist)

similarity_score(a, b) ==
    IF max_dist <= 0 THEN One
    ELSE LET dist == abs(a - b)
         IN  clamp01(One - dist)

\* variant: the formula of the archived prototype, closeness of the average
\* to the midpoint times 1 - 0.25 * extremity, rounded down to 1/One
complementarity_score_v1(a, b) ==
    LET max_dev == SCALE_MAX - SCALE_MIN
    IN  IF max_dev <= 0 THEN One
        ELSE LET closeness == max_dev - abs((a + b) - (SCALE_MIN + SCALE_MAX))
                 extremity == abs(2 * a - (SCALE_MIN + SCALE_MAX))
                                  + abs(2 * b - (SCALE_MIN + SCALE_MAX))
             IN  clamp01((One * closeness * (8 * max_dev - extremity))
                             \div (8 * max_dev * max_dev))

complementarity_score(a, b) ==
    LET target_sum == SCALE_MIN + SCALE_MAX
        max_dev == SCALE_MAX - SCALE_MIN
    IN  IF max_dev <= 0 THEN One
        ELSE LET dev == abs((a + b) - target_sum)
             IN  clamp01(One - dev)

feature_score(feature, a, b) ==
    LET mode == Get(SCORING_MODE, feature, "similarity")
    IN  IF mode = "complementarity"
        THEN << complementarity_score(a, b), "complementarity" >>
        ELSE << similarity_score(a, b), "similarity" >>

prettify_feature_name(f) == Str(capitalize(replace(Chars(f), "_", " ")))

(***************************************************************************)
(* One pair of rows: lines 177-192.                                        *)
(***************************************************************************)
\* float(cell)
float(cell) == cell.value

weight(f) == Get(WEIGHTS, f, 10)

\* in tenths
total_weight == SumSeq(List([k \in DOMAIN FEATURES |-> weight(FEATURES[k])]))

\* the tuples (f, sc, w, mode) in the order of FEATURES
per_feature_details(a, b) ==
    List([k \in DOMAIN FEATURES |->
        LET f == FEATURES[k]
            r == feature_score(f, float(a.attrs[f]), float(b.attrs[f]))
        IN  [f |-> f, sc |-> r[1], w |-> weight(f), mode |-> r[2]]])

\* variant: the weights are left out of the sum
weighted_sum_unweighted(details) ==
    SumSeq(List([k \in DOMAIN details |-> 10 * details[k].sc]))

\* in 1/(10*One)
weighted_sum(details) ==
    SumSeq(List([k \in DOMAIN details |-> details[k].w * details[k].sc]))

\* (weighted_sum / total_weight) * 100.0, as the fraction num/den
compat(details) == [num |-> weighted_sum(details) * 100, den |-> total_weight * One]

\* The doubles of two products w*sc that are equal as reals differ in two
\* cases: 0.8*0.75 = 0.6000000000000001 > 1.2*0.5 = 0.6, and
\* 1.2*0.75 = 0.8999999999999999 < 0.9*1.0 = 0.9.
FloatBias(w, sc) ==
    IF One = 4 /\ sc = 3
    THEN (IF w = 8 THEN 1 ELSE IF w = 12 THEN -1 ELSE 0)
    ELSE 0

\* the sort key x[1] * x[2] of line 191, in an order-preserving unit
contribution(d) == 4 * (d.sc * d.w) + FloatBias(d.w, d.sc)

\* variant: the details stay in the order of FEATURES
sort_details_unsorted(details) == details

sort_details(details) ==
    SortDesc(details, List([k \in DOMAIN details |-> contribution(details[k])]))

\* the exception the pair raises, or "none"
pair_error(a, b) ==
    IF \E k \in DOMAIN FEATURES :
          ~a.attrs[FEATURES[k]].numeric \/ ~b.attrs[FEATURES[k]].numeric
    THEN "ValueError"
    ELSE IF total_weight = 0 THEN "ZeroDivisionError"
    ELSE "none"

(***************************************************************************)
(* One row of the table against all the others: lines 170-195.             *)
(***************************************************************************)
\* variant: no row is skipped
others_keep_self(a) == List([j \in 1..Len(profiles) |-> j])

\* the positions j of the rows that are not skipped, in table order
others(a) ==
    SelectSeq([j \in 1..Len(profiles) |-> j],
              LAMBDA j : ~(a.user_id = profiles[j].user_id))

\* variant: the division by total_weight is made once per row of the table,
\* before its pairs
first_error_division_hoisted(a, js) ==
    IF total_weight = 0 THEN "ZeroDivisionError"
    ELSE LET raising == SelectSeq(js, LAMBDA j : pair_error(a, profiles[j]) # "none")
         IN  IF raising = << >> THEN "none" ELSE pair_error(a, profiles[raising[1]])

\* the exception of the first pair that raises one
first_error(a, js) ==
    LET raising == SelectSeq(js, LAMBDA j : pair_error(a, profiles[j]) # "none")
    IN  IF raising = << >> THEN "none" ELSE pair_error(a, profiles[raising[1]])

unsorted_candidates(a) ==
    LET js == others(a)
    IN  List([k \in DOMAIN js |->
            LET details == per_feature_details(a, profiles[js[k]])
            IN  [j |-> js[k], compat |-> compat(details),
                 details |-> sort_details(details)]])

\* variant: the candidates stay in table order
sort_candidates_unsorted(cands) == cands

\* variant: the candidates are sorted in ascending order
sort_candidates_ascending(cands) ==
    SortDesc(cands, List([k \in DOMAIN cands |-> -cands[k].compat.num]))

\* variant: an ascending sort that is then reversed, sorted(...)[::-1]
sort_candidates_ascending_reversed(cands) ==
    LET asc == sort_candidates_ascending(cands)
    IN  List([k \in DOMAIN asc |-> asc[Len(asc) + 1 - k]])

\* candidates.sort(key=lambda x: x[1], reverse=True): the fractions share
\* their denominator, so they are ordered as their numerators are
sort_candidates(cands) ==
    SortDesc(cands, List([k \in DOMAIN cands |-> cands[k].compat.num]))

top(cands) == Prefix(cands, top_n)

(***************************************************************************)
(* The emitted rows: lines 197-232.                                        *)
(***************************************************************************)
\* sc:.2f
FmtScore(sc) == Fmt2f(Round2(sc, One))

\* w:.2f
FmtWeight(w) == Fmt2f(w * 10)

\* what str() prints of a cell
CellText(cell) == IF cell.numeric THEN ToString(cell.value) ELSE "n/a"

top3(details) == Prefix(details, 3)

driver_parts(t3) ==
    List([k \in DOMAIN t3 |->
        t3[k].f \o "(mode=" \o t3[k].mode \o ", score=" \o FmtScore(t3[k].sc)
            \o ", w=" \o FmtWeight(t3[k].w) \o ")"])

driver_pretty(t3) == List([k \in DOMAIN t3 |-> prettify_feature_name(t3[k].f)])

\* variant: the last two labels are joined by " and "
explanation_short_and(labels) ==
    IF Len(labels) < 2
    THEN "High compatibility driven by " \o join(", ", labels) \o "."
    ELSE "High compatibility driven by "
             \o join(", ", SubSeq(labels, 1, Len(labels) - 1))
             \o " and " \o labels[Len(labels)] \o "."

\* labels is the local driver_pretty of line 206
explanation_short(labels) ==
    "High compatibility driven by " \o join(", ", labels) \o "."

explanation_long(a, b, compat_score, labels) ==
    a.tenant_label \o " matches well with " \o b.tenant_label
        \o " (score " \o Fmt2f(Round2(compat_score.num, compat_score.den))
        \o "%). Top drivers: " \o join(", ", labels) \o ". "
        \o "Note: similarity rewards close values, while complementarity rewards balanced pairs "
        \o "(on a 1..5 scale, best when a+b is about 6)."

values_hint(a, b, t3) ==
    List([k \in DOMAIN t3 |->
        t3[k].f \o ": " \o CellText(a.attrs[t3[k].f]) \o " vs "
            \o CellText(b.attrs[t3[k].f])
            \o " (" \o t3[k].mode \o ", " \o FmtScore(t3[k].sc) \o ")"])

\* variant: the ranks are counted from 0, as enumerate(top) counts them
match_row_rank_from_zero(a, rank, cand) ==
    LET b == profiles[cand.j]
        t3 == top3(cand.details)
        labels == driver_pretty(t3)
    IN  [user_id |-> a.user_id,
         tenant_label |-> a.tenant_label,
         match_rank |-> rank - 1,
         match_user_id |-> b.user_id,
         match_tenant_label |-> b.tenant_label,
         compatibility_score |-> Round2(cand.compat.num, cand.compat.den),
         top_drivers |-> join("; ", driver_parts(t3)),
         explanation_short |-> explanation_short(labels),
         explanation_long |-> explanation_long(a, b, cand.compat, labels),
         top_driver_values |-> join(" | ", values_hint(a, b, t3)),
         top3 |-> t3]

\* the row of rank `rank`; top3 is the local of that name, kept beside the
\* strings rendered from it
match_row(a, rank, cand) ==
    LET b == profiles[cand.j]
        t3 == top3(cand.details)
        labels == driver_pretty(t3)
    IN  [user_id |-> a.user_id,
         tenant_label |-> a.tenant_label,
         match_rank |-> rank,
         match_user_id |-> b.user_id,
         match_tenant_label |-> b.tenant_label,
         compatibility_score |-> Round2(cand.compat.num, cand.compat.den),
         top_drivers |-> join("; ", driver_parts(t3)),
         explanation_short |-> explanation_short(labels),
         explanation_long |-> explanation_long(a, b, cand.compat, labels),
         top_driver_values |-> join(" | ", values_hint(a, b, t3)),
         top3 |-> t3]

(***************************************************************************)
(* The run.                                                                *)
(***************************************************************************)
Init ==
    /\ config \in Configs
    /\ profiles \in Tables
    /\ top_n \in 1..MaxTopN
    /\ i = 0
    /\ candidates = << >>
    /\ out_rows = << >>
    /\ pc = "running"
    /\ error = "none"

\* one iteration of the outer loop, for the row at position i + 1
MatchEntity ==
    /\ pc = "running"
    /\ i < Len(profiles)
    /\ \E a \in { profiles[i + 1] } :
       \E err \in { first_error(a, others(a)) } :
          IF err # "none"
          THEN /\ pc' = "raised"
               /\ error' = err
               /\ UNCHANGED << i, candidates, out_rows >>
          ELSE \E sorted \in { sort_candidates(unsorted_candidates(a)) } :
               \E tops \in { top(sorted) } :
                  /\ candidates' = sorted
                  /\ out_rows' = out_rows \o
                        [rank \in DOMAIN tops |-> match_row(a, rank, tops[rank])]
                  /\ i' = i + 1
                  /\ UNCHANGED << pc, error >>
    /\ UNCHANGED << config, profiles, top_n >>

\* return pd.DataFrame(out_rows)
Return ==
    /\ pc = "running"
    /\ i = Len(profiles)
    /\ pc' = "done"
    /\ UNCHANGED << config, profiles, top_n, i, candidates, out_rows, error >>

Next == MatchEntity \/ Return

Spec == Init /\ [][Next]_vars

(***************************************************************************)
(* Vocabulary of the properties.                                           *)
(***************************************************************************)
\* no two rows of the table share a user_id
UniqueIds ==
    \A j, k \in DOMAIN profiles : j # k => profiles[j].user_id # profiles[k].user_id

\* every configured attribute of every row holds a number
AllNumeric ==
    \A j \in DOMAIN profiles : \A k \in DOMAIN FEATURES :
        profiles[j].attrs[FEATURES[k]].numeric

\* the configured weights do not sum to zero
WeightsUsable == SumSeq(List([k \in DOMAIN FEATURES |-> Get(WEIGHTS, FEATURES[k], 10)])) # 0

\* the input the engine is specified for
WellFormed == UniqueIds /\ AllNumeric /\ WeightsUsable

\* the position in the table of the row with this user_id (ids unique)
PositionOf(uid) == CHOOSE j \in DOMAIN profiles : profiles[j].user_id = uid

\* the positions in out_rows of the rows emitted for this user_id
RowsOf(uid) == { r \in DOMAIN out_rows : out_rows[r].user_id = uid }

\* the value of attribute f in the row at position j
ValueAt(j, f) == profiles[j].attrs[f].value

InScale(v) == SCALE_MIN <= v /\ v <= SCALE_MAX

\* the rows of the table are not in increasing order of user_id
Unsorted == \E j \in DOMAIN profiles : j > 1 /\ profiles[j].user_id < profiles[j - 1].user_id

\* compat of the pair of rows at positions j and k, as the engine computes it
CompatAt(j, k) == compat(per_feature_details(profiles[j], profiles[k]))

(***************************************************************************)
(* C1.  For a table with unique user_ids (numeric cells, weights that do   *)
(* not sum to zero) and every top_n >= 1, the run raises nothing, every    *)
(* row of the table that the loop has processed has exactly                *)
(* min(top_n, n_entities - 1) match rows and the others have none; and in  *)
(* no emitted row, of any table, is match_user_id equal to user_id.        *)
(***************************************************************************)
C1_MatchCountAndNoSelfMatch ==
    /\ \A r \in DOMAIN out_rows : out_rows[r].match_user_id # out_rows[r].user_id
    /\ WellFormed =>
          /\ pc # "raised"
          /\ \A k \in DOMAIN profiles :
                Cardinality(RowsOf(profiles[k].user_id)) =
                    IF k <= i THEN min(top_n, Len(profiles) - 1) ELSE 0

\* a finished run over an unsorted, filtered table of three tenants with
\* top_n = 1: one row each, of three candidates' worth
C1_Witness ==
    /\ pc = "done" /\ WellFormed /\ Unsorted
    /\ Len(profiles) = 3 /\ top_n = 1 /\ Len(out_rows) = 3
    /\ \A j \in DOMAIN profiles : profiles[j].user_id # j

(***************************************************************************)
(* C2.  For every processed row E of a well-formed table, an other row     *)
(* that is not emitted as a match of E has a compatibility percentage with *)
(* E that is at most the percentage of every emitted match of E.           *)
(***************************************************************************)
EmittedFor(k) ==
    { PositionOf(out_rows[r].match_user_id) : r \in RowsOf(profiles[k].user_id) }

C2_EmittedArePrefixOfRanking ==
    WellFormed =>
        \A k \in 1..i :
            LET emitted == EmittedFor(k)
                \* the percentage of row k with each row of the table
                pct == List([o \in DOMAIN profiles |-> CompatAt(k, o).num])
            IN  \A m \in emitted :
                    \A o \in (DOMAIN profiles \ {k}) \ emitted : pct[o] <= pct[m]

\* the first row's only match stands later in the table than a row that is
\* not emitted and scores strictly less
C2_Witness ==
    /\ pc = "done" /\ WellFormed /\ Len(profiles) = 3 /\ top_n = 1
    /\ EmittedFor(1) = {3}
    /\ CompatAt(1, 2).num < CompatAt(1, 3).num

(***************************************************************************)
(* C3.  For every tenant, the compatibility_score of its emitted rows is   *)
(* non-increasing in match_rank: of two rows emitted one after the other   *)
(* with an increasing rank the second has no greater score, and, user_ids  *)
(* being unique, of any two rows of the same user_id the one of greater    *)
(* rank has no greater score.                                              *)
(***************************************************************************)
C3_ScoresNonIncreasingInRank ==
    /\ \A r \in DOMAIN out_rows :
          (r > 1 /\ out_rows[r - 1].match_rank < out_rows[r].match_rank)
          => out_rows[r - 1].compatibility_score >= out_rows[r].compatibility_score
    /\ UniqueIds =>
          \A r1, r2 \in DOMAIN out_rows :
             (/\ out_rows[r1].user_id = out_rows[r2].user_id
              /\ out_rows[r1].match_rank < out_rows[r2].match_rank)
             => out_rows[r1].compatibility_score >= out_rows[r2].compatibility_score

\* a tenant whose rank-1 match is a later row of the table than its rank-2
\* match, with a strictly greater score
C3_Witness ==
    /\ pc = "done" /\ WellFormed /\ Len(out_rows) >= 2
    /\ out_rows[1].user_id = out_rows[2].user_id
    /\ out_rows[1].match_rank = 1 /\ out_rows[2].match_rank = 2
    /\ out_rows[1].compatibility_score > out_rows[2].compatibility_score
    /\ PositionOf(out_rows[1].match_user_id) > PositionOf(out_rows[2].match_user_id)

(***************************************************************************)
(* C4.  For every pair of different rows with numeric attribute values     *)
(* the compatibility percentage lies in [0,100], values outside            *)
(* [SCALE_MIN, SCALE_MAX] included, and such values raise no error: every  *)
(* recorded candidate has 0 <= compat <= 100, every emitted                *)
(* compatibility_score lies in [0.00, 100.00], and a run over numeric      *)
(* cells with usable weights never ends in an exception.                   *)
(***************************************************************************)
C4_PercentageWithinBounds ==
    /\ \A c \in DOMAIN candidates :
          /\ candidates[c].compat.den > 0
          /\ 0 <= candidates[c].compat.num
          /\ candidates[c].compat.num <= 100 * candidates[c].compat.den
          /\ \A d \in DOMAIN candidates[c].details :
                0 <= candidates[c].details[d].sc /\ candidates[c].details[d].sc <= One
    /\ \A r \in DOMAIN out_rows :
          0 <= out_rows[r].compatibility_score /\ out_rows[r].compatibility_score <= 10000
    /\ (AllNumeric /\ WeightsUsable) => (pc # "raised" /\ error = "none")

\* a finished run on the 1..5 scale whose table holds values outside the
\* scale, far enough for an unclamped score to leave [0,1]
C4_Witness ==
    /\ pc = "done" /\ Len(out_rows) > 0 /\ AllNumeric /\ SCALE_MAX > SCALE_MIN
    /\ \E r \in DOMAIN out_rows :
          \E j, k \in DOMAIN profiles :
             /\ profiles[j].user_id = out_rows[r].user_id
             /\ profiles[k].user_id = out_rows[r].match_user_id
             /\ \E f \in Range(FEATURES) :
                   /\ ~InScale(ValueAt(k, f))
                   /\ abs(ValueAt(j, f) - ValueAt(k, f)) > SCALE_MAX - SCALE_MIN

(***************************************************************************)
(* C5.  The compatibility percentage computed for the ordered pair (A,B)   *)
(* equals the one computed for (B,A): every recorded candidate B of the    *)
(* last processed row A has the compat that the pair (B,A) gets, and when  *)
(* B is emitted as a match of A and A as a match of B (unique user_ids),   *)
(* both rows carry the same compatibility_score.                           *)
(***************************************************************************)
C5_ScoreSymmetry ==
    /\ (i >= 1 /\ AllNumeric) =>
          \A c \in DOMAIN candidates :
             candidates[c].compat =
                 compat(per_feature_details(profiles[candidates[c].j], profiles[i]))
    /\ UniqueIds =>
          \A r1, r2 \in DOMAIN out_rows :
             (/\ out_rows[r1].user_id = out_rows[r2].match_user_id
              /\ out_rows[r1].match_user_id = out_rows[r2].user_id)
             => out_rows[r1].compatibility_score = out_rows[r2].compatibility_score

\* two tenants emitted as each other's match, with different values in an
\* attribute and a score strictly between 0 and 100
C5_Witness ==
    /\ pc = "done" /\ WellFormed
    /\ \E r1, r2 \in DOMAIN out_rows :
          /\ out_rows[r1].user_id = out_rows[r2].match_user_id
          /\ out_rows[r1].match_user_id = out_rows[r2].user_id
          /\ out_rows[r1].compatibility_score = out_rows[r2].compatibility_score
          /\ out_rows[r1].compatibility_score \in 1..9999
          /\ \E f \in Range(FEATURES) :
                ValueAt(PositionOf(out_rows[r1].user_id), f)
                    < ValueAt(PositionOf(out_rows[r1].match_user_id), f)

(***************************************************************************)
(* The per-attribute scores and the percentage as the specification states *)
(* them, as fractions.                                                     *)
(***************************************************************************)
\* the denominator of the per-attribute scores
ScaleSpan == IF SCALE_MAX = SCALE_MIN THEN 1 ELSE SCALE_MAX - SCALE_MIN

Clamp(v, lo, hi) == IF v < lo THEN lo ELSE IF v > hi THEN hi ELSE v

\* 1 - |a-b| / (SCALE_MAX-SCALE_MIN) clamped to [0,1], times ScaleSpan;
\* 1.0 when the scale has one point
StatedSimilarity(a, b) ==
    IF SCALE_MAX = SCALE_MIN THEN ScaleSpan
    ELSE Clamp(ScaleSpan - abs(a - b), 0, ScaleSpan)

\* 1 - |a+b-(SCALE_MIN+SCALE_MAX)| / (SCALE_MAX-SCALE_MIN) clamped to [0,1],
\* times ScaleSpan; 1.0 when the scale has one point
StatedComplementarity(a, b) ==
    IF SCALE_MAX = SCALE_MIN THEN ScaleSpan
    ELSE Clamp(ScaleSpan - abs(a + b - (SCALE_MIN + SCALE_MAX)), 0, ScaleSpan)

StatedMode(f) == IF f \in DOMAIN SCORING_MODE THEN SCORING_MODE[f] ELSE "similarity"

StatedWeight(f) == IF f \in DOMAIN WEIGHTS THEN WEIGHTS[f] ELSE 10

StatedScore(f, a, b) ==
    IF StatedMode(f) = "complementarity"
    THEN StatedComplementarity(a, b) ELSE StatedSimilarity(a, b)

\* weight(f) * score(f, a_f, b_f) for the rows at positions j and k
StatedContribution(f, j, k) == StatedWeight(f) * StatedScore(f, ValueAt(j, f), ValueAt(k, f))

StatedWeightedSum(j, k) ==
    SumSeq(List([n \in DOMAIN FEATURES |-> StatedContribution(FEATURES[n], j, k)]))

StatedTotalWeight == SumSeq(List([n \in DOMAIN FEATURES |-> StatedWeight(FEATURES[n])]))

\* round(weighted_sum / total_weight * 100, 2), in hundredths
StatedPercentage(j, k) ==
    Round2(StatedWeightedSum(j, k) * 100, StatedTotalWeight * ScaleSpan)

(***************************************************************************)
(* C6.  Every emitted compatibility_score (well-formed table) equals       *)
(* round(weighted_sum / total_weight * 100, 2), weighted_sum the sum over  *)
(* the configured attributes of weight(f) * score(f, a_f, b_f) and         *)
(* total_weight the sum of their weights; with the single similarity       *)
(* attribute of weight 1.0 on the scale 1..5, values 1 and 3 give 50.00    *)
(* and values 1 and 5 give 0.00.                                           *)
(***************************************************************************)
SingleSimilarityConfig ==
    /\ FEATURES = << "x" >> /\ StatedWeight("x") = 10 /\ StatedMode("x") = "similarity"
    /\ SCALE_MIN = 1 /\ SCALE_MAX = 5

C6_ScoreIsRoundedWeightedAverage ==
    WellFormed =>
        \A r \in DOMAIN out_rows :
            LET j == PositionOf(out_rows[r].user_id)
                k == PositionOf(out_rows[r].match_user_id)
            IN  /\ out_rows[r].compatibility_score = StatedPercentage(j, k)
                /\ (SingleSimilarityConfig /\ ValueAt(j, "x") = 1 /\ ValueAt(k, "x") = 3)
                      => out_rows[r].compatibility_score = 5000
                /\ (SingleSimilarityConfig /\ ValueAt(j, "x") = 1 /\ ValueAt(k, "x") = 5)
                      => out_rows[r].compatibility_score = 0

\* the scenario A(x=1), B(x=3), C(x=5) with top_n = 2: A's matches are
\* B at 50.00 and C at 0.00
C6_Witness ==
    /\ pc = "done" /\ WellFormed /\ SingleSimilarityConfig
    /\ Len(profiles) = 3 /\ top_n = 2
    /\ ValueAt(1, "x") = 1 /\ ValueAt(2, "x") = 3 /\ ValueAt(3, "x") = 5
    /\ out_rows[1].user_id = profiles[1].user_id
    /\ out_rows[1].match_user_id = profiles[2].user_id
    /\ out_rows[1].compatibility_score = 5000
    /\ out_rows[2].user_id = profiles[1].user_id
    /\ out_rows[2].match_user_id = profiles[3].user_id
    /\ out_rows[2].compatibility_score = 0

(***************************************************************************)
(* C7.  In every recorded similarity score of values a, b: on a scale of   *)
(* one point the score is 1.0; for a, b in [SCALE_MIN, SCALE_MAX] it is    *)
(* 1 - |a-b| / (SCALE_MAX-SCALE_MIN) clamped to [0,1], which is 1.0 for    *)
(* a = b and 0.0 for the two ends of the scale.                            *)
(***************************************************************************)
\* the recorded (f, sc, w, mode) tuples of the last processed row, each with
\* the two values it scores
RecordedScores ==
    IF i = 0 THEN { }
    ELSE UNION { { [d |-> candidates[c].details[n],
                    a |-> ValueAt(i, candidates[c].details[n].f),
                    b |-> ValueAt(candidates[c].j, candidates[c].details[n].f)]
                   : n \in DOMAIN candidates[c].details }
                 : c \in DOMAIN candidates }

C7_SimilarityFormula ==
    \A s \in RecordedScores :
        s.d.mode = "similarity" =>
            /\ SCALE_MAX = SCALE_MIN => s.d.sc = One
            /\ (SCALE_MAX > SCALE_MIN /\ InScale(s.a) /\ InScale(s.b)) =>
                  /\ s.d.sc * ScaleSpan = StatedSimilarity(s.a, s.b) * One
                  /\ s.a = s.b => s.d.sc = One
                  /\ (s.a = SCALE_MIN /\ s.b = SCALE_MAX) => s.d.sc = 0

\* one row scored against others: the two ends of the scale give 0.0, equal
\* values give 1.0, and a third pair gives a score strictly in between
C7_Witness ==
    /\ SCALE_MAX > SCALE_MIN
    /\ \E s \in RecordedScores :
          s.d.mode = "similarity" /\ s.a = SCALE_MIN /\ s.b = SCALE_MAX /\ s.d.sc = 0
    /\ \E s \in RecordedScores :
          s.d.mode = "similarity" /\ InScale(s.a) /\ s.a = s.b /\ s.d.sc = One
    /\ \E s \in RecordedScores :
          s.d.mode = "similarity" /\ InScale(s.a) /\ InScale(s.b)
              /\ 0 < s.d.sc /\ s.d.sc < One

(***************************************************************************)
(* C8.  In every recorded complementarity score of values a, b in          *)
(* [SCALE_MIN, SCALE_MAX] (scale of more than one point) the score is      *)
(* 1 - |a+b-(SCALE_MIN+SCALE_MAX)| / (SCALE_MAX-SCALE_MIN) clamped to      *)
(* [0,1]: 1.0 whenever a+b = SCALE_MIN+SCALE_MAX, and 0.0 for              *)
(* (SCALE_MIN,SCALE_MIN) and (SCALE_MAX,SCALE_MAX).                        *)
(***************************************************************************)
C8_ComplementarityFormula ==
    \A s \in RecordedScores :
        (/\ s.d.mode = "complementarity"
         /\ SCALE_MAX > SCALE_MIN /\ InScale(s.a) /\ InScale(s.b)) =>
            /\ s.d.sc * ScaleSpan = StatedComplementarity(s.a, s.b) * One
            /\ s.a + s.b = SCALE_MIN + SCALE_MAX => s.d.sc = One
            /\ (s.a = s.b /\ s.a \in {SCALE_MIN, SCALE_MAX}) => s.d.sc = 0

\* one row scored against others: the two ends of the scale give 1.0 and
\* twice the upper end gives 0.0
C8_Witness ==
    /\ SCALE_MAX > SCALE_MIN
    /\ \E s \in RecordedScores :
          s.d.mode = "complementarity" /\ s.a = SCALE_MAX /\ s.b = SCALE_MIN /\ s.d.sc = One
    /\ \E s \in RecordedScores :
          s.d.mode = "complementarity" /\ s.a = SCALE_MAX /\ s.b = SCALE_MAX /\ s.d.sc = 0

(***************************************************************************)
(* C9.  Every emitted row (well-formed table) lists exactly                *)
(* min(3, number of configured attributes) attributes in top_drivers and   *)
(* in top_driver_values, in non-increasing order of weight*score for the   *)
(* row's pair, and every attribute that is not listed has a weight*score   *)
(* at most that of every listed one.                                       *)
(***************************************************************************)
\* "{f}(mode={mode}, score={sc:.2f}, w={w:.2f})" of attribute f for rows j, k
StatedDriverPart(f, j, k) ==
    f \o "(mode=" \o StatedMode(f) \o ", score="
      \o Fmt2f(Round2(StatedScore(f, ValueAt(j, f), ValueAt(k, f)), ScaleSpan))
      \o ", w=" \o Fmt2f(StatedWeight(f) * 10) \o ")"

\* "{f}: {a} vs {b} ({mode}, {sc:.2f})" of attribute f for rows j, k
StatedValuesHint(f, j, k) ==
    f \o ": " \o ToString(ValueAt(j, f)) \o " vs " \o ToString(ValueAt(k, f))
      \o " (" \o StatedMode(f) \o ", "
      \o Fmt2f(Round2(StatedScore(f, ValueAt(j, f), ValueAt(k, f)), ScaleSpan)) \o ")"

\* the attributes a row lists, in the order it lists them
Listed(row) == List([n \in DOMAIN row.top3 |-> row.top3[n].f])

C9_TopDriversAreLargestContributions ==
    WellFormed =>
        \A r \in DOMAIN out_rows :
            LET j == PositionOf(out_rows[r].user_id)
                k == PositionOf(out_rows[r].match_user_id)
                fs == Listed(out_rows[r])
                \* weight*score of the listed attributes, and of all of them
                listed == List([n \in DOMAIN fs |-> StatedContribution(fs[n], j, k)])
                all == List([n \in DOMAIN FEATURES |->
                                StatedContribution(FEATURES[n], j, k)])
            IN  /\ Len(fs) = min(3, Len(FEATURES))
                /\ Range(fs) \subseteq Range(FEATURES)
                /\ \A n, m \in DOMAIN fs : n # m => fs[n] # fs[m]
                /\ out_rows[r].top_drivers =
                      join("; ", List([n \in DOMAIN fs |-> StatedDriverPart(fs[n], j, k)]))
                /\ out_rows[r].top_driver_values =
                      join(" | ", List([n \in DOMAIN fs |-> StatedValuesHint(fs[n], j, k)]))
                /\ \A n, m \in DOMAIN fs : n < m => listed[n] >= listed[m]
                /\ \A n \in DOMAIN FEATURES : \A m \in DOMAIN fs :
                      FEATURES[n] \notin Range(fs) => all[n] <= listed[m]

\* a row under the ten attributes of the file whose three drivers are not
\* the first three attributes, have strictly decreasing contributions, and
\* leave out an attribute of strictly smaller contribution
C9_Witness ==
    /\ pc = "done" /\ WellFormed /\ Len(FEATURES) = 10
    /\ \E r \in DOMAIN out_rows :
          LET j == PositionOf(out_rows[r].user_id)
              k == PositionOf(out_rows[r].match_user_id)
              fs == Listed(out_rows[r])
          IN  /\ Len(fs) = 3
              /\ Range(fs) \cap {FEATURES[1], FEATURES[2], FEATURES[3]} = { }
              /\ StatedContribution(fs[1], j, k) > StatedContribution(fs[2], j, k)
              /\ StatedContribution(fs[2], j, k) > StatedContribution(fs[3], j, k)
              /\ StatedContribution(FEATURES[1], j, k) < StatedContribution(fs[3], j, k)

(***************************************************************************)
(* C10.  As stated: for every emitted row with three drivers,              *)
(* explanation_short is "High compatibility driven by {attr1}, {attr2} and *)
(* {attr3}." with the labels of the three drivers in driver order.         *)
(***************************************************************************)
\* the human-readable label of an attribute: underscores to spaces,
\* first letter capital, the rest lower case
StatedLabel(f) ==
    CASE f = "cleanliness_level" -> "Cleanliness level"
      [] f = "noise_tolerance" -> "Noise tolerance"
      [] f = "sleep_schedule" -> "Sleep schedule"
      [] f = "routine_structure" -> "Routine structure"
      [] f = "WFH_frequency" -> "Wfh frequency"
      [] f = "sociability_level" -> "Sociability level"
      [] f = "guest_tolerance" -> "Guest tolerance"
      [] f = "privacy_need" -> "Privacy need"
      [] f = "conflict_style" -> "Conflict style"
      [] f = "shared_spaces_usage" -> "Shared spaces usage"
      [] f = "x" -> "X"

C10_ShortExplanationWithAnd ==
    \A r \in DOMAIN out_rows :
        LET fs == Listed(out_rows[r])
        IN  Len(fs) = 3 =>
               out_rows[r].explanation_short =
                   "High compatibility driven by " \o StatedLabel(fs[1]) \o ", "
                       \o StatedLabel(fs[2]) \o " and " \o StatedLabel(fs[3]) \o "."

(***************************************************************************)
(* C10, amended.  For every emitted row with three drivers,                *)
(* explanation_short is "High compatibility driven by {attr1}, {attr2},    *)
(* {attr3}." with the labels of the three drivers in driver order: every   *)
(* two neighbouring labels are separated by ", ".                          *)
(***************************************************************************)
C10_ShortExplanationCommaSeparated ==
    \A r \in DOMAIN out_rows :
        LET fs == Listed(out_rows[r])
        IN  Len(fs) = 3 =>
               out_rows[r].explanation_short =
                   "High compatibility driven by " \o StatedLabel(fs[1]) \o ", "
                       \o StatedLabel(fs[2]) \o ", " \o StatedLabel(fs[3]) \o "."

\* a row whose first driver is the attribute WFH_frequency
C10_Witness ==
    \E r \in DOMAIN out_rows :
        /\ Len(out_rows[r].top3) = 3
        /\ Listed(out_rows[r]) = << "WFH_frequency", "conflict_style", "shared_spaces_usage" >>
        /\ out_rows[r].explanation_short =
              "High compatibility driven by Wfh frequency, Conflict style, Shared spaces usage."

(***************************************************************************)
(* C11.  The emitted rows are grouped by row of the table, in table order: *)
(* out_rows is, for the processed positions 1, 2, ... in this order, the   *)
(* group of the k rows of that position, k the smaller of top_n and the    *)
(* number of rows of another user_id; the rows of a group carry the        *)
(* user_id of their position and the match_rank values 1, 2, ..., k in     *)
(* this order, so that there is one row per position and rank.             *)
(***************************************************************************)
\* the number of rows emitted for the row at position p
GroupSize(p) ==
    min(top_n, Cardinality({ j \in DOMAIN profiles :
                                profiles[j].user_id # profiles[p].user_id }))

\* the number of rows emitted for the positions before p
GroupStart(p) == SumSeq(List([q \in 1..(p - 1) |-> GroupSize(q)]))

C11_RowsGroupedInInputOrderWithDenseRanks ==
    /\ Len(out_rows) = GroupStart(i + 1)
    /\ \A p \in 1..i : \A r \in 1..GroupSize(p) :
          /\ out_rows[GroupStart(p) + r].user_id = profiles[p].user_id
          /\ out_rows[GroupStart(p) + r].match_rank = r

\* a finished run over three tenants that are not in the order of their
\* user_ids, two rows each: the groups follow the table, not the user_ids
C11_Witness ==
    /\ pc = "done" /\ UniqueIds /\ Unsorted
    /\ Len(profiles) = 3 /\ top_n >= 2 /\ Len(out_rows) = 6
    /\ profiles[1].user_id > profiles[2].user_id
    /\ out_rows[1].user_id = profiles[1].user_id /\ out_rows[1].match_rank = 1
    /\ out_rows[2].user_id = profiles[1].user_id /\ out_rows[2].match_rank = 2
    /\ out_rows[3].user_id = profiles[2].user_id /\ out_rows[3].match_rank = 1
    /\ out_rows[6].user_id = profiles[3].user_id /\ out_rows[6].match_rank = 2

(***************************************************************************)
(* C12.  As stated: under a configuration whose weights sum to zero the    *)
(* run is rejected with a configuration error before any pair is computed, *)
(* for every table: it never returns a table, the only exception it ends   *)
(* in is the configuration error, and no row is emitted.                   *)
(***************************************************************************)
C12_ZeroWeightSumRejectedUpFront ==
    ~WeightsUsable =>
        /\ pc # "done"
        /\ pc = "raised" => error = "ConfigurationError"
        /\ out_rows = << >>

(***************************************************************************)
(* C13.  As stated: when a row of the table holds a cell that is not a     *)
(* number (unique user_ids, usable weights), the run does not end in an    *)
(* exception, and the table it returns holds match rows for every row      *)
(* whose cells are numbers and that has another such row to match.         *)
(***************************************************************************)
\* the configured cells of the row at position k are numbers
NumericRow(k) == \A n \in DOMAIN FEATURES : profiles[k].attrs[FEATURES[n]].numeric

C13_MalformedEntityIsolated ==
    (UniqueIds /\ WeightsUsable) =>
        /\ pc # "raised"
        /\ pc = "done" =>
              \A k \in DOMAIN profiles :
                 (NumericRow(k) /\ \E o \in DOMAIN profiles \ {k} : NumericRow(o))
                 => RowsOf(profiles[k].user_id) # { }

(***************************************************************************)
(* C14.  When no row of the table has a candidate (the table is empty, has *)
(* one row, or all its rows share one user_id), the run raises nothing,    *)
(* emits no row, and goes on until it has returned; this under every       *)
(* configuration and whatever the cells hold.                              *)
(***************************************************************************)
\* no row of the table has a row of another user_id beside it
NoCandidates ==
    \A j, k \in DOMAIN profiles : profiles[j].user_id = profiles[k].user_id

C14_NoCandidateGivesEmptyMatchSet ==
    NoCandidates =>
        /\ pc # "raised" /\ error = "none"
        /\ out_rows = << >>
        /\ pc = "done" \/ ENABLED Next

\* a returned run over a table of one row whose cells are not all numbers,
\* under weights that sum to zero
C14_Witness ==
    /\ pc = "done" /\ Len(profiles) = 1 /\ i = 1
    /\ ~WeightsUsable /\ ~profiles[1].attrs["x"].numeric
    /\ out_rows = << >> /\ error = "none"

(***************************************************************************)
(* C15.  Ties are broken by the order of the table: of two candidates of   *)
(* the processed row with equal compat, the one that stands earlier in the *)
(* table stands earlier among the sorted candidates; and (well-formed      *)
(* table) when rows X and Y have equal compat with a processed row E and X *)
(* stands before Y, Y is emitted for E only if X is, with a smaller        *)
(* match_rank for X.                                                       *)
(***************************************************************************)
\* the match_rank of the row emitted for the row at position k that names
\* the row at position x as its match
RankOf(k, x) ==
    out_rows[CHOOSE r \in RowsOf(profiles[k].user_id) :
                 out_rows[r].match_user_id = profiles[x].user_id].match_rank

C15_TiesKeepInputOrder ==
    /\ \A c1, c2 \in DOMAIN candidates :
          (/\ candidates[c1].compat = candidates[c2].compat
           /\ candidates[c1].j < candidates[c2].j) => c1 < c2
    /\ WellFormed =>
          \A k \in 1..i :
             LET emitted == EmittedFor(k)
                 pct == List([o \in DOMAIN profiles |->
                                 IF o = k THEN 0 ELSE CompatAt(k, o).num])
             IN  \A x, y \in DOMAIN profiles \ {k} :
                    (x < y /\ pct[x] = pct[y] /\ y \in emitted)
                    => (x \in emitted /\ RankOf(k, x) < RankOf(k, y))

\* a row with one match asked for and two candidates of equal compat,
\* strictly between 0 and 100, the earlier of which has the greater
\* user_id: the earlier one is emitted
C15_Witness ==
    /\ pc = "done" /\ WellFormed /\ Len(profiles) = 3 /\ top_n = 1
    /\ CompatAt(1, 2) = CompatAt(1, 3)
    /\ CompatAt(1, 2).num > 0 /\ CompatAt(1, 2).num < 100 * CompatAt(1, 2).den
    /\ profiles[2].user_id > profiles[3].user_id
    /\ EmittedFor(1) = {2}

====
